---- MODULE Spec2Model ----
(***************************************************************************)
(* A model of the three executables of acd-l5x-tool-lib:                   *)
(*   acd_parser.c                 header split + signature report          *)
(*   acd_extractor.c              header split + signature scan + decoder  *)
(*   comprehensive_acd_parser.c   component recovery from one payload      *)
(*                                                                         *)
(* A container (or payload) is a byte sequence of length `size'.  It is    *)
(* held sparsely: `bytes' maps the offsets that hold a byte of interest to *)
(* that byte and every other offset below `size' holds the byte `fill'.    *)
(* zlib is not part of the repository: what inflate() returns for the      *)
(* compressed stream starting at an offset is an input carried by the      *)
(* container (`streams').  fopen/malloc are taken to succeed.              *)
(***************************************************************************)
EXTENDS Integers, Sequences, FiniteSets, TLC

VARIABLES
    prog,           \* which executable runs: "parser" | "extractor" | "comps"
    pc,             \* control location of main
    file,           \* the input file (container, or extracted payload)
    fpos,           \* the stream's position indicator during the header loop
    header_lines,   \* acd_parser.c read_text_header: header_lines
    binary_start,   \* acd.binary_start / binary_start
    offset,         \* scan loop: offset of the current window
    i,              \* scan loop: index in the current window
    block_count,    \* scan loop: block_count
    passes,         \* scan loop: passes of the while loop completed so far
    handed,         \* offsets reported / handed to extract_gzip_block, in order
    returned,       \* what extract_gzip_block returned for each of them
    last,           \* outcome of the most recent extract_gzip_block call
    artifacts,      \* files written under extracted_blocks/
    comps_offset,   \* comprehensive_acd_parser.c main: comps_offset
    start_offset,   \* parse_comps_database: start_offset (-1: not called)
    field_count,    \* parse_comps_database: field_count
    dat_offset,     \* parse_comps_database: dat_offset
    idx_offset,     \* parse_comps_database: idx_offset
    current,        \* parse_comps_database: current
    components,     \* components[0 .. component_count-1]
    oob,            \* some read so far lay at an index >= the payload's length
    origins         \* where each stored component's identifier and name lay

carveVars == <<fpos, header_lines, binary_start, offset, i, block_count,
               passes, handed, returned, last, artifacts>>

compsVars == <<comps_offset, start_offset, field_count, dat_offset, idx_offset,
               current, components, oob, origins>>

vars == <<prog, pc, file, carveVars, compsVars>>

----------------------------------------------------------------------------
(* Byte values the sources name.                                          *)
NUL == 0
TAB == 9
LF == 10
CR == 13
SPACE == 32
TILDE == 126
GZ1 == 31
GZ2 == 139
SOH == 1
DEL == 127
HIGH == 200
LETTER == 97

(* Program constants.                                                      *)
BUFFER_SIZE == 4096
LINE_SIZE == 1024
SCAN_BUFFER == 4096
HEADER_LEN == 10
PARSER_TAIL == 2
PARSER_CAP == 10
EXTRACT_CAP == 20
PREVIEW_LEN == 50
XML_LEN == 5

XmlLit == <<60, 63, 120, 109, 108>>

Min(a, b) == IF a < b THEN a ELSE b

MinOf(S) == CHOOSE x \in S : \A y \in S : x <= y

(* The byte at offset o of f (o < f.size).                                *)
FileByte(f, o) == IF o \in DOMAIN f.bytes THEN f.bytes[o] ELSE f.fill

(* The offsets of lo..hi-1 that hold a byte of interest; every other one   *)
(* holds f.fill, so a search for another byte need only look at these.     *)
Marked(f, lo, hi) == {o \in DOMAIN f.bytes : lo <= o /\ o < hi}

(* fread(buf, 1, n, file) at position off: the number of bytes read.      *)
BytesRead(f, off, n) == IF off >= f.size THEN 0 ELSE Min(n, f.size - off)

----------------------------------------------------------------------------
(* The header loops.                                                      *)

(* (unsigned char)c < 0x20 && c != '\r' && c != '\n' && c != '\t'         *)
IsCtrl(b) == b < SPACE /\ b /= CR /\ b /= LF /\ b /= TAB

(* fgets(buf, n, file) at position fp < size: the position after the call: *)
(* at most n-1 bytes, stopping after the first line feed.                  *)
FgetsEnd(f, fp, n) ==
    LET lim == Min(fp + n - 1, f.size)
        lfs == {o \in Marked(f, fp, lim) : FileByte(f, o) = LF}
    IN  IF lfs = {} THEN lim ELSE MinOf(lfs) + 1

(* strlen of the buffer fgets filled with the bytes fp..e-1.               *)
StrLen(f, fp, e) ==
    LET nuls == {o \in Marked(f, fp, e) : FileByte(f, o) = NUL}
    IN  IF nuls = {} THEN e - fp ELSE MinOf(nuls) - fp

(* acd_extractor.c: for (i = 0; line[i]; i++) if (ctrl) is_binary = 1      *)
ExtractorIsBinary(f, fp, e) ==
    \E o \in Marked(f, fp, fp + StrLen(f, fp, e)) : IsCtrl(FileByte(f, o))

(* acd_parser.c: for (i = 0; buffer[i] && buffer[i] != '\n'; i++) ...       *)
ParserIsText(f, fp, e) ==
    LET stops == {o \in Marked(f, fp, e) : FileByte(f, o) = NUL \/ FileByte(f, o) = LF}
        stop  == IF stops = {} THEN e ELSE MinOf(stops)
    IN  ~ \E o \in Marked(f, fp, stop) : IsCtrl(FileByte(f, o))

----------------------------------------------------------------------------
(* The decoder and the classifier (acd_extractor.c extract_gzip_block).   *)

(* inflateInit2(16 + MAX_WBITS); inflate(Z_FINISH): the return code and    *)
(* the bytes produced for the stream that starts at off.                   *)
Inflate(f, off) ==
    IF off \in DOMAIN f.streams THEN f.streams[off]
    ELSE [ret |-> "Z_DATA_ERROR", out |-> <<>>]

(* Mutant of Printable: the preview loop stops at the first 0x00, as the    *)
(* header loops do.                                                        *)
Printable_CString(p) ==
    LET nuls == {k \in 1..Len(p) : p[k] = NUL}
        end  == IF nuls = {} THEN Len(p) ELSE MinOf(nuls) - 1
    IN  \A k \in 0..(Min(PREVIEW_LEN, end) - 1) :
            LET b == p[k + 1]
            IN  ~ ((b < SPACE \/ b > TILDE) /\ b /= LF /\ b /= CR /\ b /= TAB)

(* The preview loop: the first 50 bytes are printable or \n \r \t.         *)
Printable(p) ==
    \A k \in 0..(Min(PREVIEW_LEN, Len(p)) - 1) :
        LET b == p[k + 1]
        IN  ~ ((b < SPACE \/ b > TILDE) /\ b /= LF /\ b /= CR /\ b /= TAB)

(* decomp_size > 5 && memcmp(decompressed, "<?xml", 5) == 0                *)
IsXml(p) == Len(p) > XML_LEN /\ SubSeq(p, 1, XML_LEN) = XmlLit

NoBlock == [called |-> FALSE, off |-> 0, num |-> 0, rc |-> 0, ret |-> "none",
            payload |-> <<>>, bin |-> FALSE, preview |-> "none", xml |-> FALSE]

ExtractGzipBlock(f, off, num) ==
    LET failed == [NoBlock EXCEPT !.called = TRUE, !.off = off, !.num = num,
                                  !.rc = -1]
    IN  IF BytesRead(f, off, HEADER_LEN) /= HEADER_LEN THEN failed
        ELSE IF FileByte(f, off) /= GZ1 \/ FileByte(f, off + 1) /= GZ2 THEN failed
        ELSE LET z     == Inflate(f, off)
                 size  == Len(z.out)
                 saved == z.ret = "Z_STREAM_END" \/ z.ret = "Z_OK"
             IN  [called  |-> TRUE, off |-> off, num |-> num,
                  rc      |-> IF size > 0 THEN 0 ELSE -1,
                  ret     |-> z.ret,
                  payload |-> z.out,
                  bin     |-> saved,
                  preview |-> IF ~saved THEN "none"
                              ELSE IF Printable(z.out) /\ size > 0 THEN "text"
                              ELSE "binary",
                  xml     |-> saved /\ IsXml(z.out)]

Written(r) ==
    (IF r.bin THEN {<<"bin", r.num, r.off>>} ELSE {})
    \cup (IF r.xml THEN {<<"xml", r.num, r.off>>} ELSE {})

----------------------------------------------------------------------------
(* The input containers.                                                  *)

MaxLines == 2
MaxHits == 21
MaxPayloadLen == 52
LateCtrl == 4100
RegionLen == 40
MaxPasses == 5

(* The function holding byte b at offset o for every <<o, b>> of pairs.    *)
MapOf(pairs) ==
    [o \in {p[1] : p \in pairs} |-> (CHOOSE p \in pairs : p[1] = o)[2]]

Shift(pairs, base) == {<<p[1] + base, p[2]>> : p \in pairs}

Magic(o) == {<<o, GZ1>>, <<o + 1, GZ2>>}

(* Decompressed payloads: len bytes, a letter everywhere but for the       *)
(* "<?xml" literal in front (xml) and one chosen byte sp[2] at sp[1].      *)
Payload(len, xml, sp) ==
    [k \in 1..len |-> IF k - 1 = sp[1] THEN sp[2]
                      ELSE IF xml /\ k <= XML_LEN THEN XmlLit[k]
                      ELSE LETTER]

PayloadLens == {0, 4, 5, 6, PREVIEW_LEN, PREVIEW_LEN + 1, MaxPayloadLen}

Specials(len) ==
    {<<-1, NUL>>}
    \cup {<<p, b>> : p \in {0, 5, PREVIEW_LEN - 1, PREVIEW_LEN, len - 1} \cap 0..(len - 1),
                    b \in {NUL, DEL, TAB}}

Payloads ==
    UNION {{Payload(len, xml, sp) : xml \in BOOLEAN, sp \in Specials(len)} :
           len \in PayloadLens}

Outcomes ==
    {[ret |-> r, out |-> p] :
        r \in {"Z_STREAM_END", "Z_BUF_ERROR", "Z_DATA_ERROR"}, p \in Payloads}

GoodStream == [ret |-> "Z_STREAM_END", out |-> Payload(6, FALSE, <<-1, NUL>>)]
BadStream == [ret |-> "Z_DATA_ERROR", out |-> <<>>]

Container(size, pairs, streams) ==
    [size |-> size, fill |-> LETTER, bytes |-> MapOf(pairs), streams |-> MapOf(streams)]

(* K text lines of ll bytes each, the first byte of each line being d.     *)
TextLines(K, ll, d) ==
    {<<k * ll + ll - 1, LF>> : k \in 0..(K - 1)}
    \cup (IF ll >= 2 /\ d /= LETTER THEN {<<k * ll, d>> : k \in 0..(K - 1)} ELSE {})

(* The line after the text lines, by kind: where its control bytes and its *)
(* line feed lie, relative to its start.                                   *)
BinLine(kind) ==
    CASE kind = "soh"    -> {<<0, SOH>>, <<6, LF>>}
      [] kind = "nul"    -> {<<0, NUL>>, <<6, LF>>}
      [] kind = "nulsoh" -> {<<0, NUL>>, <<1, SOH>>, <<6, LF>>}
      [] kind = "sohnul" -> {<<0, SOH>>, <<2, NUL>>, <<6, LF>>}
      [] kind = "mid"    -> {<<2, SOH>>, <<6, LF>>}
      [] kind = "late"   -> {<<LateCtrl, SOH>>, <<LateCtrl + 6, LF>>}
      [] OTHER           -> {}

BinKinds == {"none", "soh", "nul", "nulsoh", "sohnul", "mid", "late"}

LineLens == {1, 3, LINE_SIZE + 6, BUFFER_SIZE + 4}

PreambleFiles ==
    {LET B   == K * ll
         len == IF kind = "none" THEN 2
                ELSE IF kind = "late" THEN LateCtrl + RegionLen ELSE RegionLen
         mg  == IF kind = "none" THEN {} ELSE Magic(len - 20)
     IN  Container(B + len,
                   TextLines(K, ll, d) \cup Shift(BinLine(kind) \cup mg, B),
                   IF kind = "none" THEN {} ELSE {<<B + len - 20, GoodStream>>})
     : K \in 0..MaxLines, ll \in LineLens, d \in {LETTER, TAB, HIGH}, kind \in BinKinds}

(* Signature layouts, relative to the start of the binary region of R bytes *)
Layouts(R) ==
    {{2 * k : k \in 0..(n - 1)} : n \in 0..MaxHits}
    \cup {{e} : e \in (SCAN_BUFFER - 12)..(SCAN_BUFFER - 9)}
    \cup {{SCAN_BUFFER - 12, SCAN_BUFFER - 10}}
    \cup {{R - t} : t \in {2, 3, 9, 10, 11, 12}}

ScanSizes == {0, 1, 2, 3, 5, 9, 10, 11, 12, 13, 60, SCAN_BUFFER, SCAN_BUFFER + 1,
              2 * SCAN_BUFFER + 8}

(* Which of the signatures of a layout start a stream that decodes.        *)
StreamsOf(lay, B, pat) ==
    {<<B + o, IF pat = "none" \/ (pat = "first" /\ o = 0) THEN BadStream ELSE GoodStream>>
       : o \in lay}

ScanFiles ==
    UNION {UNION {
        {Container(3 * K + R,
                   TextLines(K, 3, LETTER)
                     \cup (IF R >= 1 /\ 0 \notin lay THEN {<<3 * K, SOH>>} ELSE {})
                     \cup Shift(UNION {Magic(o) : o \in lay}, 3 * K),
                   StreamsOf(lay, 3 * K, pat))
         : lay \in {l \in Layouts(R) : \A o \in l : 0 <= o /\ o <= R - 2}}
        : K \in {0, 1}, pat \in {"all", "first", "none"}}
        : R \in ScanSizes}

DecodeFiles ==
    {Container(RegionLen, Magic(0), {<<0, z>>}) : z \in Outcomes}
    \cup {Container(RegionLen, Magic(0), {})}

Containers == PreambleFiles \cup ScanFiles \cup DecodeFiles

----------------------------------------------------------------------------
CompsIdle ==
    /\ comps_offset = 0
    /\ start_offset = -1
    /\ field_count = 0
    /\ dat_offset = 0
    /\ idx_offset = 0
    /\ current = 0
    /\ components = <<>>
    /\ oob = FALSE
    /\ origins = <<>>

Init ==
    /\ prog \in {"parser", "extractor"}
    /\ file \in Containers
    /\ pc = "header"
    /\ fpos = 0
    /\ header_lines = 0
    /\ binary_start = 0
    /\ offset = 0
    /\ i = 0
    /\ block_count = 0
    /\ passes = 0
    /\ handed = <<>>
    /\ returned = <<>>
    /\ last = NoBlock
    /\ artifacts = {}
    /\ CompsIdle

(* acd_extractor.c main, lines 181-193: one pass of the header loop.       *)
ExtractorHeaderLine ==
    /\ prog = "extractor" /\ pc = "header"
    /\ fpos < file.size
    /\ LET e == FgetsEnd(file, fpos, LINE_SIZE)
       IN  IF ExtractorIsBinary(file, fpos, e)
           THEN /\ binary_start' = e - StrLen(file, fpos, e)
                /\ offset' = e - StrLen(file, fpos, e)
                /\ fpos' = e
                /\ pc' = "scan"
           ELSE /\ fpos' = e
                /\ UNCHANGED <<binary_start, offset, pc>>
    /\ UNCHANGED <<prog, file, header_lines, i, block_count, passes, handed, returned,
                   last, artifacts>>
    /\ UNCHANGED compsVars

(* fgets returned NULL: no binary line, binary_start stays 0.              *)
ExtractorHeaderEnd ==
    /\ prog = "extractor" /\ pc = "header"
    /\ fpos >= file.size
    /\ pc' = "scan"
    /\ offset' = binary_start
    /\ UNCHANGED <<prog, file, fpos, header_lines, binary_start, i, block_count,
                   passes, handed, returned, last, artifacts>>
    /\ UNCHANGED compsVars

(* acd_parser.c read_text_header, lines 34-56: one pass of the loop.       *)
ParserHeaderLine ==
    /\ prog = "parser" /\ pc = "header"
    /\ fpos < file.size
    /\ LET e == FgetsEnd(file, fpos, BUFFER_SIZE)
       IN  IF ParserIsText(file, fpos, e)
           THEN /\ fpos' = e
                /\ header_lines' = header_lines + 1
                /\ UNCHANGED <<binary_start, offset, pc>>
           ELSE /\ binary_start' = fpos
                /\ offset' = fpos
                /\ fpos' = e
                /\ pc' = "scan"
                /\ UNCHANGED header_lines
    /\ UNCHANGED <<prog, file, i, block_count, passes, handed, returned, last,
                   artifacts>>
    /\ UNCHANGED compsVars

ParserHeaderEnd ==
    /\ prog = "parser" /\ pc = "header"
    /\ fpos >= file.size
    /\ pc' = "scan"
    /\ offset' = binary_start
    /\ UNCHANGED <<prog, file, fpos, header_lines, binary_start, i, block_count,
                   passes, handed, returned, last, artifacts>>
    /\ UNCHANGED compsVars

----------------------------------------------------------------------------
(* The signature scans.                                                   *)

(* The indexes j >= from of the window at off, below bound, at which the    *)
(* buffer holds 0x1F 0x8B.                                                 *)
Hits(f, off, from, bound) ==
    {j \in {o - off : o \in Marked(f, off + from, off + bound)} :
        FileByte(f, off + j) = GZ1 /\ FileByte(f, off + j + 1) = GZ2}

(* Mutant of ExtractorBound: the for loop stops one index early while the  *)
(* window still advances by bytes_read - 10.                               *)
ExtractorBound_Short(f, off) == BytesRead(f, off, SCAN_BUFFER) - HEADER_LEN - 1

(* acd_extractor.c main, lines 205-216.  The for loop runs while           *)
(* i < bytes_read - 10; bytes_read > 10 inside the while loop.             *)
ExtractorBound(f, off) == BytesRead(f, off, SCAN_BUFFER) - HEADER_LEN

ExtractorInLoop == offset < file.size - HEADER_LEN

(* The loop reaches the next signature: extract_gzip_block(.., ++block_count) *)
ExtractorHit ==
    /\ prog = "extractor" /\ pc = "scan"
    /\ ExtractorInLoop
    /\ LET hits == Hits(file, offset, i, ExtractorBound(file, offset))
       IN  /\ hits /= {}
           /\ LET j == MinOf(hits)
                  r == ExtractGzipBlock(file, offset + j, block_count + 1)
              IN  /\ block_count' = block_count + 1
                  /\ handed' = Append(handed, offset + j)
                  /\ returned' = Append(returned, r.rc)
                  /\ last' = r
                  /\ artifacts' = artifacts \cup Written(r)
                  /\ IF block_count + 1 >= EXTRACT_CAP
                     THEN pc' = "done" /\ i' = j
                     ELSE pc' = pc /\ i' = j + 1
    /\ UNCHANGED <<prog, file, fpos, header_lines, binary_start, offset, passes>>
    /\ UNCHANGED compsVars

(* The for loop ends: offset += bytes_read - 10                            *)
ExtractorWindowEnd ==
    /\ prog = "extractor" /\ pc = "scan"
    /\ ExtractorInLoop
    /\ passes < MaxPasses
    /\ Hits(file, offset, i, ExtractorBound(file, offset)) = {}
    /\ offset' = offset + BytesRead(file, offset, SCAN_BUFFER) - HEADER_LEN
    /\ i' = 0
    /\ passes' = passes + 1
    /\ UNCHANGED <<prog, pc, file, fpos, header_lines, binary_start, block_count,
                   handed, returned, last, artifacts>>
    /\ UNCHANGED compsVars

ExtractorScanEnd ==
    /\ prog = "extractor" /\ pc = "scan"
    /\ ~ExtractorInLoop
    /\ pc' = "done"
    /\ UNCHANGED <<prog, file, carveVars>>
    /\ UNCHANGED compsVars

(* acd_parser.c find_compressed_blocks, lines 72-117.  bytes_read - 10 is  *)
(* a size_t: below 10 bytes read it wraps, and the for loop then runs over *)
(* the bytes read and on past them.                                        *)
ParserInLoop == offset < file.size - PARSER_TAIL

ParserWraps(f, off) == BytesRead(f, off, BUFFER_SIZE) < HEADER_LEN

(* The indexes at which both bytes compared were read from the file.       *)
ParserBound(f, off) ==
    IF ParserWraps(f, off) THEN BytesRead(f, off, BUFFER_SIZE) - 1
    ELSE BytesRead(f, off, BUFFER_SIZE) - HEADER_LEN

ParserHit ==
    /\ prog = "parser" /\ pc = "scan"
    /\ ParserInLoop
    /\ LET hits == Hits(file, offset, i, ParserBound(file, offset))
       IN  /\ hits /= {}
           /\ LET j == MinOf(hits)
              IN  /\ block_count' = block_count + 1
                  /\ handed' = Append(handed, offset + j)
                  /\ IF block_count + 1 >= PARSER_CAP
                     THEN pc' = "done" /\ i' = j
                     ELSE pc' = pc /\ i' = j + 1
    /\ UNCHANGED <<prog, file, fpos, header_lines, binary_start, offset, passes,
                   returned, last, artifacts>>
    /\ UNCHANGED compsVars

ParserWindowEnd ==
    /\ prog = "parser" /\ pc = "scan"
    /\ ParserInLoop
    /\ ~ParserWraps(file, offset)
    /\ passes < MaxPasses
    /\ Hits(file, offset, i, ParserBound(file, offset)) = {}
    /\ offset' = offset + BytesRead(file, offset, BUFFER_SIZE) - HEADER_LEN
    /\ i' = 0
    /\ passes' = passes + 1
    /\ UNCHANGED <<prog, pc, file, fpos, header_lines, binary_start, block_count,
                   handed, returned, last, artifacts>>
    /\ UNCHANGED compsVars

(* Fewer than 10 bytes read and the bytes read are scanned: the loop goes   *)
(* on over the rest of buffer[] (never written) and past its end.  Either  *)
(* the process faults, or what lies there holds signatures enough to reach *)
(* the cap, the first of them g bytes past the bytes read.                 *)
ParserOverrun ==
    /\ prog = "parser" /\ pc = "scan"
    /\ ParserInLoop
    /\ ParserWraps(file, offset)
    /\ Hits(file, offset, i, ParserBound(file, offset)) = {}
    /\ \/ /\ pc' = "fault"
          /\ UNCHANGED <<block_count, handed, i>>
       \/ \E g \in {0, 7} :
            LET first == BytesRead(file, offset, BUFFER_SIZE) - 1 + g
                n     == PARSER_CAP - block_count
            IN  /\ pc' = "done"
                /\ block_count' = PARSER_CAP
                /\ handed' = handed \o [k \in 1..n |-> offset + first + 2 * (k - 1)]
                /\ i' = first + 2 * (n - 1)
    /\ UNCHANGED <<prog, file, fpos, header_lines, binary_start, offset, passes,
                   returned, last, artifacts>>
    /\ UNCHANGED compsVars

ParserScanEnd ==
    /\ prog = "parser" /\ pc = "scan"
    /\ ~ParserInLoop
    /\ pc' = "done"
    /\ UNCHANGED <<prog, file, carveVars>>
    /\ UNCHANGED compsVars

Next ==
    \/ ExtractorHeaderLine
    \/ ExtractorHeaderEnd
    \/ ExtractorHit
    \/ ExtractorWindowEnd
    \/ ExtractorScanEnd
    \/ ParserHeaderLine
    \/ ParserHeaderEnd
    \/ ParserHit
    \/ ParserWindowEnd
    \/ ParserOverrun
    \/ ParserScanEnd

Spec == Init /\ [][Next]_vars

----------------------------------------------------------------------------
(* comprehensive_acd_parser.c: component recovery from one payload.        *)
(* The payload is malloc(file_size) bytes; NUL is its fill byte.  A read   *)
(* at an index >= file_size is undefined: it yields whatever lies behind   *)
(* the block (`junk', or a byte of `bytes' placed there) up to `mapped',   *)
(* and the process dies on a read at or beyond `mapped'.                   *)

MAX_COMPONENTS == 10000
MAX_STRING_LEN == 256
MARKER_SKIP == 6
FIELD_MAX_LEN == 50
MAX_FIELDS == 20
SECTION_SKIP == 8
SECTION_TAIL == 10
RECORD_SIZE == 100
UID_LIMIT == 65536
NAME_TAIL == 50
NAME_MIN == 3
NAME_MAX == 40
NAME_SKIP == 20
STRIDE == 4
RECOVER_CAP == 50
MARKER_LEN == 5
UPPER_A == 65
LOWER_Z == 122

CompsLit == <<67, 111, 109, 112, 115>>
DatLit == <<46, 100, 97, 116>>
IdxLit == <<46, 105, 100, 120>>

MaxOf(S) == CHOOSE x \in S : \A y \in S : x >= y

(* data[o]                                                                 *)
Mem(f, o) ==
    IF o \in DOMAIN f.bytes THEN f.bytes[o]
    ELSE IF o < f.size THEN f.fill ELSE f.junk

(* x < a - b in size_t arithmetic, for x an index of addressable memory:   *)
(* with a < b the difference wraps to a value above every such index.      *)
LessSizeSub(x, a, b) == IF a < b THEN TRUE ELSE x < a - b

(* The first index at or after `from' a loop `i < data_size - k' cannot    *)
(* reach: data_size - k, or the end of the mapped memory when it wraps.    *)
LoopEnd(f, k) == IF f.size < k THEN f.mapped ELSE f.size - k

(* memcmp(data + o, lit, Len(lit)) == 0                                    *)
MemEq(f, o, lit) == \A k \in 1..Len(lit) : Mem(f, o + k - 1) = lit[k]

(* The offsets in from..bound-1 where lit starts (no byte of a literal is  *)
(* the fill byte, so only offsets holding a byte of interest are tried).   *)
Find(f, lit, from, bound) ==
    {o \in Marked(f, from, bound) : o + Len(lit) <= f.mapped /\ MemEq(f, o, lit)}

(* strlen(read_string(data, o, max_len))                                   *)
ReadStringLen(f, o, max_len) ==
    LET lim  == Min(MAX_STRING_LEN - 1, max_len)
        nuls == {k \in 0..(lim - 1) : Mem(f, o + k) = NUL}
    IN  IF nuls = {} THEN lim ELSE MinOf(nuls)

(* read_string(data, o, max_len): the bytes copied to the static buffer.   *)
ReadString(f, o, max_len) ==
    [k \in 1..ReadStringLen(f, o, max_len) |-> Mem(f, o + k - 1)]

(* The last index read_string reads: the terminator, or the last byte      *)
(* when the limit ends the loop.                                           *)
ReadStringLast(f, o, max_len) ==
    LET n == ReadStringLen(f, o, max_len)
    IN  IF n < Min(MAX_STRING_LEN - 1, max_len) THEN o + n ELSE o + n - 1

(* read_uint32_le(data, o)                                                 *)
ReadUint32Le(f, o) ==
    Mem(f, o) + 256 * Mem(f, o + 1) + 65536 * Mem(f, o + 2)
    + 16777216 * Mem(f, o + 3)

(* potential_uid > 0 && potential_uid < 0x10000                            *)
PlausibleUid_Inclusive(u) == u > 0 /\ u <= UID_LIMIT

PlausibleUid(u) == u > 0 /\ u < UID_LIMIT

(* strlen(potential_name) > 3 && strlen(potential_name) < 40               *)
AcceptedLen(n) == n > NAME_MIN /\ n < NAME_MAX

(* data[j] >= 'A' && data[j] <= 'z'                                        *)
NameStart(b) == b >= UPPER_A /\ b <= LOWER_Z

(* Component comp = {0}; comp.uid = ...; strcpy(comp.name, ...)            *)
NewComponent(uid, name) ==
    [uid |-> uid, name |-> name, ioi |-> <<>>, parent_uid |-> 0,
     ordinal |-> 0, type |-> <<>>]

----------------------------------------------------------------------------
(* The payloads explored.                                                  *)
Slack == 16
MaxRecords == 51
MaxFields == 21
BigBlock == 200
LongTail == 150

(* The bytes of seq laid at offset `at' (NUL bytes are the fill).          *)
Bytes(seq, at) ==
    {<<at + k - 1, seq[k]>> : k \in {q \in 1..Len(seq) : seq[q] /= NUL}}

(* `records' lists the candidate records laid in the data region, when     *)
(* `candidates' says that the data region holds nothing but such records.  *)
Block(size, pairs, junk, records, candidates) ==
    [size |-> size, fill |-> NUL, bytes |-> MapOf(pairs), junk |-> junk,
     mapped |-> size + Slack, records |-> records, candidates |-> candidates]

(* Payloads that hold markers and nothing else: one at `at', and a second  *)
(* one 7 bytes later when `two'.                                           *)
MarkerSizes == {0, 3, MARKER_LEN, MARKER_LEN + 1, 12, BigBlock}

MarkerBlocks ==
    UNION {{Block(S, (IF at >= 0 THEN Bytes(CompsLit, at) ELSE {})
                     \cup (IF two THEN Bytes(CompsLit, at + 7) ELSE {}),
                  junk, <<>>, FALSE) :
              at \in {a \in {-1, 0, 1, S - MARKER_LEN - 1, S - MARKER_LEN} :
                        a >= -1 /\ a + MARKER_LEN <= S}
                     \cup (IF S < MARKER_LEN THEN {0, S + 1} ELSE {}),
              two \in {t \in BOOLEAN : ~t \/ S = BigBlock},
              junk \in {NUL, LETTER}} :
           S \in MarkerSizes}

FieldLit == <<73, 100, 0>>

UidBytes(kind, k) ==
    CASE kind = "seq"  -> <<k, 0, 0, 0>>
      [] kind = "max"  -> <<255, 255, 0, 0>>
      [] kind = "over" -> <<0, 0, 1, 0>>
      [] OTHER         -> <<0, 0, 0, 0>>

UidOf(kind, k) ==
    CASE kind = "seq"  -> k
      [] kind = "max"  -> UID_LIMIT - 1
      [] kind = "over" -> UID_LIMIT
      [] OTHER         -> 0

NameOf(k, nl) == [q \in 1..nl |-> IF q = 1 THEN UPPER_A + (k % 26) ELSE LETTER]

(* lead bytes, "Comps\0", N field names "Id\0", the empty name, a pad      *)
(* byte, [".idx\0\0\0\0"], ".dat\0\0\0\0", M records (a 4-byte id, a name  *)
(* of nl bytes, NUL, and gap - 1 more NUL bytes between records), `tail'   *)
(* NUL bytes and [".idx" and its padding].                                 *)
RecordBlock(lead, N, idx, M, gap, nl, kind, tail) ==
    LET fields == lead + MARKER_SKIP
        d      == fields + 3 * N + 2 + (IF idx = "before" THEN SECTION_SKIP ELSE 0)
        D      == d + SECTION_SKIP
        step   == 4 + nl + gap
        P(k)   == D + (k - 1) * step
        E      == IF M = 0 THEN D ELSE P(M) + 4 + nl + 1
        size   == E + tail + (IF idx = "after" THEN SECTION_SKIP + SECTION_TAIL ELSE 0)
        ok     == /\ idx /= "before"
                  /\ kind \in {"seq", "max"}
                  /\ AcceptedLen(nl)
    IN  Block(size,
              Bytes(CompsLit, lead)
              \cup UNION {Bytes(FieldLit, fields + 3 * (n - 1)) : n \in 1..N}
              \cup (IF idx = "before" THEN Bytes(IdxLit, d - SECTION_SKIP) ELSE {})
              \cup Bytes(DatLit, d)
              \cup UNION {Bytes(UidBytes(kind, k), P(k))
                          \cup Bytes(NameOf(k, nl), P(k) + 4) : k \in 1..M}
              \cup (IF idx = "after" THEN Bytes(IdxLit, E + tail) ELSE {}),
              NUL,
              IF ok THEN [k \in 1..M |-> [uid |-> UidOf(kind, k), name |-> NameOf(k, nl)]]
                    ELSE <<>>,
              ok)

RecordBlocks ==
    {RecordBlock(lead, 2, "none", M, 24, 6, "seq", LongTail) :
        lead \in {0, 1}, M \in {1, 3}}
    \cup {RecordBlock(1, N, idx, 3, 24, 6, "seq", LongTail) :
        N \in {0, 2, MAX_FIELDS, MaxFields}, idx \in {"none", "before", "after"}}
    \cup {RecordBlock(1, 2, "none", M, gap, 6, "seq", tail) :
        M \in {0, 1, 2, 3, RECOVER_CAP, MaxRecords}, gap \in {1, 24, 25},
        tail \in {0, NAME_TAIL - 1, RECORD_SIZE, LongTail}}
    \cup {RecordBlock(1, 2, "none", M, 24, nl, kind, LongTail) :
        M \in {1, 3}, nl \in {NAME_MIN, NAME_MIN + 1, 6, NAME_MAX - 1, NAME_MAX},
        kind \in {"seq", "over", "zero"}}
    \cup {RecordBlock(1, 2, "none", 1, 24, nl, "max", LongTail) :
        nl \in {NAME_MIN, NAME_MIN + 1, 6, NAME_MAX - 1, NAME_MAX}}

(* Payloads that end inside the database header: right after "Comps\0",   *)
(* or inside the first field name "Id".                                    *)
TruncatedBlocks ==
    {Block(1 + MARKER_SKIP, Bytes(CompsLit, 1), junk, <<>>, FALSE) :
        junk \in {NUL, LETTER}}
    \cup {Block(BigBlock, Bytes(CompsLit, BigBlock - MARKER_SKIP - 2)
                          \cup Bytes(FieldLit, BigBlock - 2), junk, <<>>, FALSE) :
        junk \in {NUL, LETTER}}

(* A data section of M1 records, then ".idx\0\0\0\0" where the walk      *)
(* arrives after them, then M2 more records of the same shape and a tail.  *)
SectionBlock(M1, M2) ==
    LET D    == 1 + MARKER_SKIP + 3 * 2 + 2 + SECTION_SKIP
        step == 4 + 6 + 24
        X    == D + M1 * step
        P(k) == IF k <= M1 THEN D + (k - 1) * step
                ELSE X + SECTION_SKIP + (k - M1 - 1) * step
    IN  Block(P(M1 + M2) + 4 + 6 + 1 + LongTail,
              Bytes(CompsLit, 1)
              \cup UNION {Bytes(FieldLit, 1 + MARKER_SKIP + 3 * (n - 1)) : n \in 1..2}
              \cup Bytes(DatLit, D - SECTION_SKIP)
              \cup Bytes(IdxLit, X)
              \cup UNION {Bytes(UidBytes("seq", k), P(k))
                          \cup Bytes(NameOf(k, 6), P(k) + 4) : k \in 1..(M1 + M2)},
              NUL, <<>>, FALSE)

SectionBlocks == {SectionBlock(M1, M2) : M1 \in {0, 1, 2}, M2 \in {1, 2}}

Blocks == MarkerBlocks \cup RecordBlocks \cup TruncatedBlocks \cup SectionBlocks

----------------------------------------------------------------------------
carveRest == <<fpos, header_lines, binary_start, i, block_count, passes,
               handed, returned, last, artifacts>>

InitComps ==
    /\ prog = "comps"
    /\ file \in Blocks
    /\ pc = "find"
    /\ fpos = 0
    /\ header_lines = 0
    /\ binary_start = 0
    /\ offset = 0
    /\ i = 0
    /\ block_count = 0
    /\ passes = 0
    /\ handed = <<>>
    /\ returned = <<>>
    /\ last = NoBlock
    /\ artifacts = {}
    /\ CompsIdle

(* main: for (i = 0; i < file_size - 5; i++) if (memcmp(.., "Comps", 5)    *)
(* == 0) { comps_offset = i; break; }  if (comps_offset > 0) parse...;     *)
(* parse_comps_database: offset = start_offset; offset += 6.               *)
MainFindComps ==
    /\ prog = "comps" /\ pc = "find"
    /\ LET wraps == file.size < MARKER_LEN
           hits  == Find(file, CompsLit, 0, LoopEnd(file, MARKER_LEN))
           found == IF hits = {} THEN 0 ELSE MinOf(hits)
       IN  /\ oob' = wraps
           /\ IF hits = {} /\ wraps
              THEN /\ pc' = "fault"
                   /\ UNCHANGED <<comps_offset, start_offset, offset>>
              ELSE /\ comps_offset' = found
                   /\ IF found > 0
                      THEN /\ pc' = "fields"
                           /\ start_offset' = found
                           /\ offset' = found + MARKER_SKIP
                      ELSE /\ pc' = "done"
                           /\ UNCHANGED <<start_offset, offset>>
    /\ UNCHANGED <<prog, file, field_count, dat_offset, idx_offset, current,
                   components, origins>>
    /\ UNCHANGED carveRest

(* One pass of while (offset < data_size && field_count < 20).             *)
ReadField ==
    /\ prog = "comps" /\ pc = "fields"
    /\ IF offset < file.size /\ field_count < MAX_FIELDS
       THEN LET n    == ReadStringLen(file, offset, FIELD_MAX_LEN)
                read == ReadStringLast(file, offset, FIELD_MAX_LEN)
            IN  /\ oob' = (oob \/ read >= file.size)
                /\ IF read >= file.mapped
                   THEN pc' = "fault" /\ UNCHANGED <<offset, field_count>>
                   ELSE IF n = 0
                   THEN pc' = "markers" /\ UNCHANGED <<offset, field_count>>
                   ELSE /\ pc' = pc
                        /\ offset' = offset + n + 1
                        /\ field_count' = field_count + 1
       ELSE pc' = "markers" /\ UNCHANGED <<offset, field_count, oob>>
    /\ UNCHANGED <<prog, file, comps_offset, start_offset, dat_offset,
                   idx_offset, current, components, origins>>
    /\ UNCHANGED carveRest

(* for (i = offset; i < data_size - 10; i++): the last ".dat" before the   *)
(* first ".idx", which ends the loop; then if (dat_offset > 0) current =   *)
(* dat_offset.                                                             *)
FindMarkers ==
    /\ prog = "comps" /\ pc = "markers"
    /\ LET wraps == file.size < SECTION_TAIL
           end   == LoopEnd(file, SECTION_TAIL)
           idxs  == Find(file, IdxLit, offset, end)
           stop  == IF idxs = {} THEN end ELSE MinOf(idxs)
           dats  == Find(file, DatLit, offset, stop)
           dat   == IF dats = {} THEN 0 ELSE MaxOf(dats) + SECTION_SKIP
           idx   == IF idxs = {} THEN 0 ELSE MinOf(idxs) + SECTION_SKIP
       IN  /\ oob' = (oob \/ wraps)
           /\ dat_offset' = dat
           /\ idx_offset' = idx
           /\ IF wraps /\ idxs = {}
              THEN pc' = "fault" /\ UNCHANGED current
              ELSE IF dat > 0
              THEN pc' = "walk" /\ current' = dat
              ELSE pc' = "done" /\ UNCHANGED current
    /\ UNCHANGED <<prog, file, offset, comps_offset, start_offset, field_count,
                   components, origins>>
    /\ UNCHANGED carveRest

(* while (current < data_size - record_size && component_count < MAX_...)  *)
InWalk ==
    /\ LessSizeSub(current, file.size, RECORD_SIZE)
    /\ Len(components) < MAX_COMPONENTS

(* One pass of the walk at cur: the identifier read, the name search       *)
(* for (j = cur + 4; j < cur + record_size && j < data_size - 50; j++),    *)
(* the first j it accepts (-1: none) and the highest index it reads.       *)
WalkPass(f, cur) ==
    LET uid   == ReadUint32Le(f, cur)
        hi    == IF f.size < NAME_TAIL THEN cur + RECORD_SIZE
                 ELSE Min(cur + RECORD_SIZE, f.size - NAME_TAIL)
        tried == {j \in (cur + STRIDE)..(hi - 1) : NameStart(Mem(f, j))}
        good  == {j \in tried : AcceptedLen(ReadStringLen(f, j, FIELD_MAX_LEN))}
        j     == IF PlausibleUid(uid) /\ good /= {} THEN MinOf(good) ELSE -1
        upto  == IF j >= 0 THEN j ELSE hi - 1
        reads == {cur + STRIDE - 1}
                 \cup (IF PlausibleUid(uid)
                       THEN {q \in (cur + STRIDE)..upto : TRUE}
                            \cup {ReadStringLast(f, q, FIELD_MAX_LEN) :
                                     q \in {t \in tried : t <= upto}}
                       ELSE {})
    IN  [uid |-> uid, j |-> j, read |-> MaxOf(reads)]

(* A pass that stores a component: components[component_count++] = comp;   *)
(* current = j + strlen(name) + 20; break; current += 4; cap check.        *)
WalkAccept ==
    /\ prog = "comps" /\ pc = "walk"
    /\ InWalk
    /\ LET p == WalkPass(file, current)
           name == ReadString(file, p.j, FIELD_MAX_LEN)
       IN  /\ p.read < file.mapped
           /\ p.j >= 0
           /\ oob' = (oob \/ p.read >= file.size)
           /\ components' = Append(components, NewComponent(p.uid, name))
           /\ origins' = Append(origins, [id |-> current, name |-> p.j])
           /\ current' = p.j + Len(name) + NAME_SKIP + STRIDE
           /\ pc' = IF Len(components) + 1 >= RECOVER_CAP THEN "done" ELSE pc
    /\ UNCHANGED <<prog, file, offset, comps_offset, start_offset, field_count,
                   dat_offset, idx_offset>>
    /\ UNCHANGED carveRest

(* A pass that stores nothing: current += 4; cap check.                    *)
WalkSkip ==
    /\ prog = "comps" /\ pc = "walk"
    /\ InWalk
    /\ LET p == WalkPass(file, current)
       IN  /\ p.read < file.mapped
           /\ p.j < 0
           /\ oob' = (oob \/ p.read >= file.size)
    /\ current' = current + STRIDE
    /\ pc' = IF Len(components) >= RECOVER_CAP THEN "done" ELSE pc
    /\ UNCHANGED <<prog, file, offset, comps_offset, start_offset, field_count,
                   dat_offset, idx_offset, components, origins>>
    /\ UNCHANGED carveRest

(* A pass that reads at or beyond the end of the mapped memory.            *)
WalkFault ==
    /\ prog = "comps" /\ pc = "walk"
    /\ InWalk
    /\ WalkPass(file, current).read >= file.mapped
    /\ pc' = "fault"
    /\ oob' = TRUE
    /\ UNCHANGED <<prog, file, offset, comps_offset, start_offset, field_count,
                   dat_offset, idx_offset, current, components, origins>>
    /\ UNCHANGED carveRest

WalkEnd ==
    /\ prog = "comps" /\ pc = "walk"
    /\ ~InWalk
    /\ pc' = "done"
    /\ UNCHANGED <<prog, file, offset, comps_offset, start_offset, field_count,
                   dat_offset, idx_offset, current, components, origins, oob>>
    /\ UNCHANGED carveRest

NextComps ==
    \/ MainFindComps
    \/ ReadField
    \/ FindMarkers
    \/ WalkAccept
    \/ WalkSkip
    \/ WalkFault
    \/ WalkEnd

SpecComps == InitComps /\ [][NextComps]_vars

----------------------------------------------------------------------------
(* What the claims speak of.                                              *)

(* The offsets at which the container holds a control byte.               *)
CtrlOffsets(f) == {o \in Marked(f, 0, f.size) : IsCtrl(FileByte(f, o))}

(* The offset of the first byte of the line that holds offset c.           *)
LineStart(f, c) ==
    LET lfs == {o \in Marked(f, 0, c) : FileByte(f, o) = LF}
    IN  IF lfs = {} THEN 0 ELSE (CHOOSE o \in lfs : \A q \in lfs : q <= o) + 1

(* The offsets lo <= o < hi at which the container holds 0x1F 0x8B.        *)
MagicIn(f, lo, hi) ==
    {o \in Marked(f, lo, hi) :
        FileByte(f, o) = GZ1 /\ o + 1 < f.size /\ FileByte(f, o + 1) = GZ2}

(* h lists the members of S once each, in increasing order.                *)
ListsInOrder(h, S) ==
    /\ Len(h) = Cardinality(S)
    /\ {h[k] : k \in DOMAIN h} = S
    /\ \A k \in 1..(Len(h) - 1) : h[k] < h[k + 1]

Cap == IF prog = "parser" THEN PARSER_CAP ELSE EXTRACT_CAP

HeaderDone == pc \in {"scan", "done", "fault"}

(* C1 (as claimed): once the header loop has ended on a container whose    *)
(* first line with a control byte (0x00 included) is line K+1,             *)
(* binary_start is the offset of the first byte of that line.              *)
C1_PreambleSplit ==
    (HeaderDone /\ CtrlOffsets(file) /= {})
        => binary_start = LineStart(file, MinOf(CtrlOffsets(file)))

C3_WindowAdvances ==
    [][(passes' = passes + 1) => (offset' > offset)]_vars

(* C4 (as claimed): when the extractor's scan stops early, the number of   *)
(* segments decoded successfully equals max_count: a failed decode takes   *)
(* no slot.                                                                *)
C4_CountCap ==
    (prog = "extractor" /\ pc = "done" /\ block_count >= EXTRACT_CAP)
        => Cardinality({k \in DOMAIN returned : returned[k] = 0}) = EXTRACT_CAP

(* C5 (as claimed): a decode attempt persists the artifact and returns 0   *)
(* if and only if it produced at least one byte; with no byte produced it  *)
(* persists nothing and returns failure.                                   *)
C5_DecoderOutcome ==
    last.called =>
        /\ (last.bin /\ last.rc = 0) <=> (Len(last.payload) > 0)
        /\ (Len(last.payload) = 0) => (~last.bin /\ last.rc = -1)

(* C6 (as claimed): a decoded and persisted payload of length >= 5 that    *)
(* starts with "<?xml" is tagged Xml and gets the .xml artifact.           *)
C6_XmlTag ==
    (last.called /\ last.bin /\ Len(last.payload) >= XML_LEN
       /\ SubSeq(last.payload, 1, XML_LEN) = XmlLit)
        => (last.xml /\ <<"xml", last.num, last.off>> \in artifacts)

(* C7 (as claimed): a decoded and persisted payload holding the byte 0x00  *)
(* at any position is classified Binary.                                   *)
C7_NulAnywhereIsBinary ==
    (last.called /\ last.bin /\ \E k \in DOMAIN last.payload : last.payload[k] = NUL)
        => last.preview = "binary"

(* C7 (amended): a payload holding the byte 0x00 within its first 50 bytes *)
(* is never classified Text, and is classified Binary whenever the         *)
(* classifier runs on it.                                                  *)
C7_NulInPreviewIsBinary ==
    (last.called /\ \E k \in 1..Min(PREVIEW_LEN, Len(last.payload)) : last.payload[k] = NUL)
        => /\ last.preview /= "text"
           /\ last.bin => last.preview = "binary"

(* C7 witness: the classifier ran on a payload whose only 0x00 is the last *)
(* byte of the preview, and said Binary.                                   *)
C7_Witness ==
    /\ last.called /\ last.bin /\ last.preview = "binary"
    /\ Len(last.payload) > PREVIEW_LEN
    /\ last.payload[PREVIEW_LEN] = NUL
    /\ \A k \in 1..(PREVIEW_LEN - 1) : last.payload[k] /= NUL

----------------------------------------------------------------------------
(* Component recovery.                                                     *)

(* The offsets of the payload where the five bytes of "Comps" lie.         *)
MarkerOffsets(f) ==
    {o \in Marked(f, 0, f.size) : o + MARKER_LEN <= f.size /\ MemEq(f, o, CompsLit)}

(* The components the candidate records of f stand for, in buffer order.   *)
Recorded(f) ==
    [k \in 1..Min(Len(f.records), RECOVER_CAP) |->
        NewComponent(f.records[k].uid, f.records[k].name)]

(* C8: once main's marker search is over, parse_comps_database has been    *)
(* started at the first occurrence of "Comps" in the payload, wherever it  *)
(* lies (offset 0 and the last offset where 5 bytes fit included), and     *)
(* has not been started only when the payload holds no "Comps" at all.     *)
C8_MarkerLocation ==
    (prog = "comps" /\ pc /= "find") =>
        IF MarkerOffsets(file) = {} THEN start_offset = -1
        ELSE start_offset = MinOf(MarkerOffsets(file))

(* C9: for a payload with the marker, a field table, a .dat section and    *)
(* M candidate records in its data region, parse_comps_database ends with  *)
(* exactly min(M, 50) components, in buffer order, each with its record's  *)
(* uid and name, parent_uid = 0, ordinal = 0 and empty type.               *)
C9_RecoveryBoundAndOrder ==
    (prog = "comps" /\ pc \in {"done", "fault"} /\ start_offset >= 0
     /\ file.candidates) =>
        /\ pc = "done"
        /\ components = Recorded(file)

(* C10: at every step of the record walk every stored component has        *)
(* 1 <= uid <= 65535 and a name of more than 3 and fewer than 40 bytes,    *)
(* and component_count is at most 50, hence at most MAX_COMPONENTS.        *)
C10_AcceptanceInvariant ==
    prog = "comps" =>
        /\ \A k \in DOMAIN components :
              /\ 1 <= components[k].uid /\ components[k].uid <= UID_LIMIT - 1
              /\ Len(components[k].name) > NAME_MIN
              /\ Len(components[k].name) < NAME_MAX
        /\ Len(components) <= RECOVER_CAP
        /\ Len(components) <= MAX_COMPONENTS

(* C10: the walk has stopped at the cap with 50 components stored.         *)
C10_Witness ==
    /\ prog = "comps" /\ pc = "done"
    /\ Len(components) = RECOVER_CAP
    /\ Len(file.records) > RECOVER_CAP

(* C11: whatever the payload's length L, the marker search, the field      *)
(* table read, the .dat/.idx scan, the identifier read and the name search *)
(* never read a byte at an index >= L.                                     *)
C11_ReadsWithinPayload == prog = "comps" => ~oob

(* C12: when an .idx marker was found, no stored component has its         *)
(* identifier or its name at or after that marker, and the walk makes no   *)
(* pass at or after it: it has stopped once the data region is exhausted.  *)
C12_DataRegionConfinement ==
    (prog = "comps" /\ idx_offset > 0) =>
        /\ \A k \in DOMAIN origins :
              /\ origins[k].id < idx_offset - SECTION_SKIP
              /\ origins[k].name < idx_offset - SECTION_SKIP
        /\ (pc = "walk" /\ InWalk) => current < idx_offset - SECTION_SKIP
====
